---- MODULE Spec2Model ----
(***************************************************************************)
(* Model of the signal-to-order pipeline of the Binance Futures bot:       *)
(* BinanceTrader.execute_trade (src/binance_trader.py) and the helpers it  *)
(* calls, run against an exchange whose answers are nondeterministic.      *)
(* One action per exchange call of execute_trade; every action draws the   *)
(* exchange's answer, records the call and follows the code's branch.      *)
(***************************************************************************)
EXTENDS Integers, Sequences, FiniteSets, TLC

(* ------------------------------ bounds --------------------------------- *)

\* largest lot-size precision (fractional digits of stepSize) the exchange reports
MaxUpdates == 2
MaxPrec == 1

\* fractional digits kept of a parsed decimal: float values of the parser are
\* counted in units of 10^-FracDigits
FracDigits == 1

(* ------------------------- program constants --------------------------- *)

\* config.MAX_MARGIN_LIMIT, default of the environment variable
MAX_MARGIN_LIMIT == 100

\* BinanceAPIException code that set_margin_type maps to success
MarginAlreadySet == -4046

(* ----------------------------- input sets ------------------------------ *)

Symbols == {"BTCUSDT", "ETHUSDT"}
Directions == {"LONG", "SHORT"}
Prices == {200, 300}
Leverages == {10}
Margins == {MAX_MARGIN_LIMIT, MAX_MARGIN_LIMIT + 1}
\* 'sl' is None (<<>>) or a parsed value (<<v>>)
StopLosses == {<<>>, <<150>>}
Balances == {MAX_MARGIN_LIMIT - 1, MAX_MARGIN_LIMIT}
Precisions == 0..MaxPrec
\* error codes carried by a BinanceAPIException
ErrorCodes == {MarginAlreadySet, -2019}

(* ------------------------------ signals -------------------------------- *)

RawSignals ==
    [signal_type : Directions, symbol : Symbols, entry : Prices, tp : Prices,
     sl : StopLosses, leverage : Leverages, margin : Margins]

\* variant: a take profit equal to the entry passes
validate_signal_tp_equal(signal_data) ==
    IF signal_data.entry <= 0 THEN FALSE
    ELSE IF signal_data.tp <= 0 THEN FALSE
    ELSE IF signal_data.leverage < 1 \/ signal_data.leverage > 125 THEN FALSE
    ELSE IF signal_data.margin <= 0 THEN FALSE
    ELSE IF signal_data.signal_type = "LONG"
         THEN ~(signal_data.tp < signal_data.entry)
    ELSE IF signal_data.signal_type = "SHORT"
         THEN ~(signal_data.tp > signal_data.entry)
    ELSE TRUE

\* variant: the lower leverage limit is 0
validate_signal_leverage_zero(signal_data) ==
    IF signal_data.entry <= 0 THEN FALSE
    ELSE IF signal_data.tp <= 0 THEN FALSE
    ELSE IF signal_data.leverage < 0 \/ signal_data.leverage > 125 THEN FALSE
    ELSE IF signal_data.margin <= 0 THEN FALSE
    ELSE IF signal_data.signal_type = "LONG"
         THEN ~(signal_data.tp <= signal_data.entry)
    ELSE IF signal_data.signal_type = "SHORT"
         THEN ~(signal_data.tp >= signal_data.entry)
    ELSE TRUE

\* SignalParser.validate_signal
validate_signal(signal_data) ==
    IF signal_data.entry <= 0 THEN FALSE
    ELSE IF signal_data.tp <= 0 THEN FALSE
    ELSE IF signal_data.leverage < 1 \/ signal_data.leverage > 125 THEN FALSE
    ELSE IF signal_data.margin <= 0 THEN FALSE
    ELSE IF signal_data.signal_type = "LONG"
         THEN ~(signal_data.tp <= signal_data.entry)
    ELSE IF signal_data.signal_type = "SHORT"
         THEN ~(signal_data.tp >= signal_data.entry)
    ELSE TRUE

\* the signals parse_signal hands to execute_trade: those that validate
Signals == {s \in RawSignals : validate_signal(s)}

(* ------------------------- exchange responses -------------------------- *)

\* kind "ok": the call returned, val is its payload;
\* kind "api_error": the client raised BinanceAPIException with code val;
\* kind "other_error": the client raised any other exception (connectivity);
\* kinds "not_listed", "no_lot_size": futures_exchange_info answers without
\* the symbol, or with the symbol but no LOT_SIZE filter.
Ok(v) == [kind |-> "ok", val |-> v]
ApiError(c) == [kind |-> "api_error", val |-> c]
OtherError == [kind |-> "other_error", val |-> 0]
NoResponse == [kind |-> "none", val |-> 0]

AccountResponses ==
    {Ok(b) : b \in Balances} \cup {ApiError(-2019), OtherError}
MarginTypeResponses ==
    {Ok(0)} \cup {ApiError(c) : c \in ErrorCodes} \cup {OtherError}
LeverageResponses == {Ok(0), ApiError(-2019), OtherError}
ExchangeInfoResponses ==
    {Ok(p) : p \in Precisions}
      \cup {[kind |-> "not_listed", val |-> 0], [kind |-> "no_lot_size", val |-> 0]}
      \cup {ApiError(-2019), OtherError}
OrderResponses == {Ok(1), ApiError(-2019), OtherError}

\* an exception that the helpers' `except BinanceAPIException` does not catch
Raises(r) == r.kind = "other_error"

(* ------------------------------ quantity ------------------------------- *)

\* a quantity is units * 10^-prec
NoQuantity == [units |-> 0, prec |-> 0]

RECURSIVE Pow10(_)
Pow10(n) == IF n = 0 THEN 1 ELSE 10 * Pow10(n - 1)

\* Python round(): nearest multiple, ties to the even one; num, den > 0
RoundHalfEven(num, den) ==
    LET q == num \div den
        r == num % den
    IN  IF 2 * r < den THEN q
        ELSE IF 2 * r > den THEN q + 1
        ELSE IF q % 2 = 0 THEN q ELSE q + 1

\* BinanceTrader.calculate_quantity, for a symbol info whose LOT_SIZE step
\* has quantity_precision fractional digits
calculate_quantity(margin, leverage, entry_price, quantity_precision) ==
    LET position_size == margin * leverage
    IN  [units |-> RoundHalfEven(position_size * Pow10(quantity_precision), entry_price),
         prec  |-> quantity_precision]

(* ------------------------------- state --------------------------------- *)

VARIABLES
    pc,           \* position of the trader in execute_trade
    signal_data,  \* the signal being executed
    quantity,     \* local 'quantity' of execute_trade
    result,       \* value returned by execute_trade
    calls,        \* exchange calls of this invocation, with their responses
    positions,    \* symbols with an open position on the account
    held,         \* positions open when this invocation started
    last,         \* the previous invocation: its signal, calls and result
    message,      \* the text given to parse_signal
    parsed,       \* what parse_signal gave for it
    sizing,       \* arguments and result of a calculate_quantity call
    tasks,        \* the updates given to handle_message and how far each is
    running       \* the handler that holds the event loop's thread, 0 if none

vars == <<pc, signal_data, quantity, result, calls, positions, held, last,
          message, parsed, sizing, tasks, running>>

Call(op, symbol, side, type, qty, value, resp) ==
    [op |-> op, symbol |-> symbol, side |-> side, type |-> type,
     quantity |-> qty, value |-> value, resp |-> resp]

AnySignal == CHOOSE s \in Signals : TRUE

\* the trader after construction: no invocation yet
TraderInit ==
    /\ pc = "idle"
    /\ signal_data = AnySignal
    /\ quantity = NoQuantity
    /\ result = FALSE
    /\ calls = <<>>
    /\ positions = {}
    /\ held = {}
    /\ last = [valid |-> FALSE, signal |-> AnySignal, calls |-> <<>>, result |-> FALSE]

\* no text is being parsed, no quantity is being computed
NoMessage == <<>>
NoSignal == [signal_type |-> "", symbol |-> <<>>, entry |-> 0, tp |-> 0,
             sl |-> <<>>, leverage |-> 0, margin |-> 0]
NotParsed == [status |-> "none", value |-> "None", why |-> "", signal |-> NoSignal,
              again |-> "none"]
NoSizing == [margin |-> 0, leverage |-> 0, entry_price |-> 0,
             quantity_precision |-> 0, done |-> FALSE, quantity |-> NoQuantity]

\* no update is being handled
NoTasks == <<>>
NoHandler ==
    /\ tasks = NoTasks
    /\ running = 0

Init ==
    /\ TraderInit
    /\ message = NoMessage
    /\ parsed = NotParsed
    /\ sizing = NoSizing
    /\ NoHandler

(* ------------------- helpers of BinanceTrader --------------------------- *)
\* Each helper is given the exchange's answer r to its one client call and
\* yields what the Python method returns; an answer with Raises(r) leaves the
\* helper as an exception and is handled by the caller.

\* variant: the comparison is strict
check_balance_strict(r, required_margin) ==
    IF r.kind = "ok" THEN r.val > required_margin ELSE FALSE

\* BinanceTrader.check_balance: True iff availableBalance >= required_margin
check_balance(r, required_margin) ==
    IF r.kind = "ok" THEN r.val >= required_margin ELSE FALSE

\* BinanceTrader.set_margin_type: True on success and on error code -4046
set_margin_type(r) ==
    IF r.kind = "ok" THEN TRUE
    ELSE IF r.val = MarginAlreadySet THEN TRUE
    ELSE FALSE

\* variant: the BinanceAPIException is swallowed and True returned
set_leverage_swallow(r) == TRUE

\* BinanceTrader.set_leverage: True on success, False on BinanceAPIException
set_leverage(r) == r.kind = "ok"

\* variant: the order is not returned (the method falls off its end: None)
place_market_order_noreturn(r) == FALSE

\* variant: a response object is returned on failure as well
place_market_order_truthy(r) == TRUE

\* BinanceTrader.place_market_order: the order (truthy) or None
place_market_order(r) == r.kind = "ok"

\* variant: a response object is returned on failure as well
place_tp_order_truthy(r) == TRUE

\* BinanceTrader.place_tp_order: the order (truthy) or None
place_tp_order(r) == r.kind = "ok"

\* variant: the ceiling itself is rejected
ExceedsMarginLimit_inclusive(margin) == margin >= MAX_MARGIN_LIMIT

\* execute_trade, "Safety check: max margin limit"
ExceedsMarginLimit(margin) == margin > MAX_MARGIN_LIMIT

\* execute_trade, "Determine order sides"
entry_side(signal_type) == IF signal_type = "LONG" THEN "BUY" ELSE "SELL"

\* variant: the take-profit side is not inverted
tp_side_same(signal_type) == IF signal_type = "LONG" THEN "BUY" ELSE "SELL"

tp_side(signal_type) == IF signal_type = "LONG" THEN "SELL" ELSE "BUY"

\* variant: a False return of set_margin_type ends the invocation
AfterMarginType_abort(r) ==
    IF Raises(r) THEN "returned"
    ELSE IF ~set_margin_type(r) THEN "returned"
    ELSE "set_leverage"

\* variant: every exception of the margin-type call ends the invocation
AfterMarginType_strict(r) ==
    IF r.kind = "ok" THEN "set_leverage" ELSE "returned"

\* variant: the stop loss, when the signal has one, is read as the trigger price
tp_price_sl(signal) == IF signal.sl # <<>> THEN signal.sl[1] ELSE signal.tp

\* execute_trade, tp = signal_data['tp']: the trigger price of the take profit
tp_price(signal) == signal.tp

\* execute_trade after the margin-type call answered r: an exception other
\* than BinanceAPIException ends the invocation; a False return of
\* set_margin_type is only logged ("continuing anyway")
AfterMarginType(r) ==
    IF Raises(r) THEN "returned"
    ELSE IF ~set_margin_type(r) THEN "set_leverage"
    ELSE "set_leverage"

(* ------------------------------ actions -------------------------------- *)

\* variant: the client call is awaited and the event loop gets the thread
AfterClientCall_await(handler) == 0

\* who holds the thread after a client call of the trader: the calls are
\* synchronous, the handler that made the call keeps the thread
AfterClientCall(handler) == handler

\* 'return v' of execute_trade
Return(v) ==
    /\ pc' = "returned"
    /\ result' = v

\* variant: execute_trade has no 'except Exception' and the exception leaves it
ExceptionExit_propagate == "raised"

\* where an exception raised inside execute_trade's try block ends up:
\* 'except Exception as e: ... return False'
ExceptionExit == "returned"

\* an exception is raised inside the try block of execute_trade
Raise ==
    /\ pc' = ExceptionExit
    /\ result' = FALSE

\* execute_trade(s) is entered: its locals are set and the margin-limit
\* gate is passed or not
execute_trade(s) ==
    /\ signal_data' = s
    /\ quantity' = NoQuantity
    /\ calls' = <<>>
    /\ held' = positions
    /\ IF ExceedsMarginLimit(s.margin)
       THEN Return(FALSE)
       ELSE pc' = "check_balance" /\ result' = FALSE
    /\ UNCHANGED <<positions, last>>

\* TradingBot.handle_message calls execute_trade(s); the margin-limit gate
ExecuteTrade(s) ==
    /\ pc = "idle"
    /\ execute_trade(s)
    /\ UNCHANGED <<message, parsed, sizing, tasks, running>>

\* self.check_balance(margin)
CheckBalance ==
    /\ pc = "check_balance"
    /\ \E r \in AccountResponses :
         /\ calls' = Append(calls, Call("futures_account", "", "", "", NoQuantity, 0, r))
         /\ IF Raises(r) THEN Raise
            ELSE IF ~check_balance(r, signal_data.margin) THEN Return(FALSE)
            ELSE pc' = "set_margin_type" /\ UNCHANGED result
    /\ UNCHANGED <<signal_data, quantity, positions, held, last, message, parsed, sizing, tasks>>
    /\ running' = AfterClientCall(running)

\* self.set_margin_type(symbol, 'ISOLATED')
SetMarginType ==
    /\ pc = "set_margin_type"
    /\ \E r \in MarginTypeResponses :
         /\ calls' = Append(calls, Call("futures_change_margin_type", signal_data.symbol,
                                       "", "ISOLATED", NoQuantity, 0, r))
         /\ IF Raises(r) THEN Raise
            ELSE IF AfterMarginType(r) = "returned" THEN Return(FALSE)
            ELSE pc' = AfterMarginType(r) /\ UNCHANGED result
    /\ UNCHANGED <<signal_data, quantity, positions, held, last, message, parsed, sizing, tasks>>
    /\ running' = AfterClientCall(running)

\* self.set_leverage(symbol, leverage)
SetLeverage ==
    /\ pc = "set_leverage"
    /\ \E r \in LeverageResponses :
         /\ calls' = Append(calls, Call("futures_change_leverage", signal_data.symbol,
                                       "", "", NoQuantity, signal_data.leverage, r))
         /\ IF Raises(r) THEN Raise
            ELSE IF ~set_leverage(r) THEN Return(FALSE)
            ELSE pc' = "calculate_quantity" /\ UNCHANGED result
    /\ UNCHANGED <<signal_data, quantity, positions, held, last, message, parsed, sizing, tasks>>
    /\ running' = AfterClientCall(running)

\* quantity = self.calculate_quantity(symbol, margin, leverage, entry)
CalculateQuantity ==
    /\ pc = "calculate_quantity"
    /\ \E r \in ExchangeInfoResponses :
         /\ calls' = Append(calls, Call("futures_exchange_info", "", "", "", NoQuantity, 0, r))
         /\ IF r.kind \in {"ok", "no_lot_size"}
            THEN /\ quantity' = calculate_quantity(signal_data.margin, signal_data.leverage,
                                                   signal_data.entry,
                                                   IF r.kind = "ok" THEN r.val ELSE 0)
                 /\ pc' = "place_market_order"
                 /\ UNCHANGED result
            ELSE \* the client raised, or ValueError("Symbol ... not found"): re-raised
                 /\ Raise
                 /\ UNCHANGED quantity
    /\ UNCHANGED <<signal_data, positions, held, last, message, parsed, sizing, tasks>>
    /\ running' = AfterClientCall(running)

\* entry_order = self.place_market_order(symbol, entry_side, quantity)
PlaceMarketOrder ==
    /\ pc = "place_market_order"
    /\ \E r \in OrderResponses :
         /\ calls' = Append(calls, Call("futures_create_order", signal_data.symbol,
                                       entry_side(signal_data.signal_type), "MARKET",
                                       quantity, 0, r))
         \* an accepted market order opens the position on the account
         /\ positions' = IF r.kind = "ok" THEN positions \cup {signal_data.symbol}
                         ELSE positions
         /\ IF Raises(r) THEN Raise
            ELSE IF ~place_market_order(r) THEN Return(FALSE)
            ELSE pc' = "place_tp_order" /\ UNCHANGED result
    /\ UNCHANGED <<signal_data, quantity, held, last, message, parsed, sizing, tasks>>
    /\ running' = AfterClientCall(running)

\* variant: a rejected take-profit order is submitted again
PlaceTpOrder_retry ==
    /\ pc = "place_tp_order"
    /\ \E r \in OrderResponses :
         /\ calls' = Append(calls, Call("futures_create_order", signal_data.symbol,
                                       tp_side(signal_data.signal_type), "TAKE_PROFIT_MARKET",
                                       quantity, tp_price(signal_data), r))
         /\ IF Raises(r) THEN Raise
            ELSE IF ~place_tp_order(r) THEN pc' = "place_tp_order" /\ UNCHANGED result
            ELSE Return(TRUE)
    /\ UNCHANGED <<signal_data, quantity, positions, held, last, message, parsed, sizing, tasks>>
    /\ running' = AfterClientCall(running)

\* tp_order = self.place_tp_order(symbol, tp_side, quantity, tp)
PlaceTpOrder ==
    /\ pc = "place_tp_order"
    /\ \E r \in OrderResponses :
         /\ calls' = Append(calls, Call("futures_create_order", signal_data.symbol,
                                       tp_side(signal_data.signal_type), "TAKE_PROFIT_MARKET",
                                       quantity, tp_price(signal_data), r))
         /\ IF Raises(r) THEN Raise
            ELSE IF ~place_tp_order(r) THEN Return(FALSE)
            ELSE Return(TRUE)
    /\ UNCHANGED <<signal_data, quantity, positions, held, last, message, parsed, sizing, tasks>>
    /\ running' = AfterClientCall(running)

\* execute_trade has returned to handle_message, which logs and finishes;
\* the bot is ready for the next message
HandleMessageDone ==
    /\ pc = "returned"
    /\ pc' = "idle"
    /\ last' = [valid |-> TRUE, signal |-> signal_data, calls |-> calls, result |-> result]
    /\ UNCHANGED <<signal_data, quantity, result, calls, positions, held, message, parsed, sizing,
                   tasks, running>>

Next ==
    \/ \E s \in Signals : ExecuteTrade(s)
    \/ CheckBalance
    \/ SetMarginType
    \/ SetLeverage
    \/ CalculateQuantity
    \/ PlaceMarketOrder
    \/ PlaceTpOrder
    \/ HandleMessageDone

Spec == Init /\ [][Next]_vars

\* the steps inside execute_trade: synchronous code, every client call
\* returns or raises
TraderStep ==
    \/ CheckBalance
    \/ SetMarginType
    \/ SetLeverage
    \/ CalculateQuantity
    \/ PlaceMarketOrder
    \/ PlaceTpOrder

TypeOK ==
    /\ pc \in {"idle", "check_balance", "set_margin_type", "set_leverage",
               "calculate_quantity", "place_market_order", "place_tp_order", "returned"}
    /\ signal_data \in Signals
    /\ result \in BOOLEAN
    /\ positions \subseteq Symbols
    /\ held \subseteq positions

(* --------------------------- vocabulary -------------------------------- *)

\* an invocation of execute_trade has started (the variables describe it)
Invoked == pc # "idle" \/ last.valid

\* execute_trade has returned (the caller may already have finished too)
Ended == Invoked /\ pc \in {"returned", "idle"}

IsMarginType(c) == c.op = "futures_change_margin_type"
IsLeverage(c) == c.op = "futures_change_leverage"
IsMarket(c) == c.op = "futures_create_order" /\ c.type = "MARKET"
IsTp(c) == c.op = "futures_create_order" /\ c.type = "TAKE_PROFIT_MARKET"

\* calls that change the account: margin mode, leverage, orders
Mutating(c) ==
    c.op \in {"futures_change_margin_type", "futures_change_leverage", "futures_create_order"}

\* an order the exchange accepted
Accepted(c) == c.op = "futures_create_order" /\ c.resp.kind = "ok"

\* the margin-type request failed with an exchange error other than -4046
MarginRejected(c) ==
    IsMarginType(c) /\ c.resp.kind = "api_error" /\ c.resp.val # MarginAlreadySet

\* position of a call in the sequence balance, margin type, leverage,
\* exchange info (sizing), market entry, take profit
StepOf(c) ==
    IF c.op = "futures_account" THEN 1
    ELSE IF IsMarginType(c) THEN 2
    ELSE IF IsLeverage(c) THEN 3
    ELSE IF c.op = "futures_exchange_info" THEN 4
    ELSE IF IsMarket(c) THEN 5
    ELSE 6

\* the entry order was accepted and the take-profit call failed
PartialFailure(cs) ==
    /\ \E i \in DOMAIN cs : IsMarket(cs[i]) /\ Accepted(cs[i])
    /\ \E i \in DOMAIN cs : IsTp(cs[i]) /\ ~Accepted(cs[i])

\* the invocation failed with no entry order accepted
FailedBeforeEntry(cs, res) ==
    /\ res = FALSE
    /\ \A i \in DOMAIN cs : ~Accepted(cs[i])

\* a call without the exchange's answer: what the trader sent
Request(c) == [c EXCEPT !.resp = NoResponse]

Min(a, b) == IF a < b THEN a ELSE b

\* two answers are the same, or are 'success' and 'already set' to the
\* margin-type request
SameAnswer(c, d) ==
    \/ c.resp = d.resp
    \/ /\ IsMarginType(c) /\ IsMarginType(d)
       /\ {c.resp, d.resp} = {Ok(0), ApiError(MarginAlreadySet)}

\* the exchange answered two invocations alike, step for step, up to the
\* success / already-set difference
SameAnswers(cs, ds) ==
    \A i \in 1..Min(Len(cs), Len(ds)) : SameAnswer(cs[i], ds[i])

(* ------------------------------ claims --------------------------------- *)

\* C1 (as stated): when the account holds an open position at the start of
\* execute_trade, the invocation makes no exchange-mutating call (margin
\* mode, leverage, market order, take-profit order).
C1_BlockedWhileOpen ==
    held # {} => \A i \in DOMAIN calls : ~Mutating(calls[i])

\* C2 (as stated): the value returned when the entry order was accepted and
\* the take-profit call failed differs from the value returned by an
\* invocation that failed before any entry order was accepted.
C2_PartialFailureDistinct ==
    (/\ pc = "returned"
     /\ last.valid
     /\ PartialFailure(calls)
     /\ FailedBeforeEntry(last.calls, last.result))
    => result # last.result

\* C3: an invocation that has ended without attempting the take-profit
\* order (it stopped at the margin limit, balance, margin type, leverage,
\* sizing or the entry order) has had no order accepted by the exchange and
\* has opened no position.
C3_SafeAbortBeforeEntry ==
    (Ended /\ \A i \in DOMAIN calls : ~IsTp(calls[i]))
    => /\ \A i \in DOMAIN calls : ~Accepted(calls[i])
       /\ positions = held
       /\ result = FALSE

C3_Witness ==
    /\ pc = "returned"
    /\ Len(calls) = 5
    /\ IsMarket(calls[5])
    /\ calls[5].resp.kind = "api_error"
    /\ held # {}

\* C4: the exchange calls of one invocation are, in this order and each at
\* most once, balance query, margin type, leverage, exchange info (sizing),
\* market entry, take profit; the trader's position is always the step after
\* the last completed call; the take-profit order is attempted only right
\* after an accepted market entry order.
C4_FixedStepOrder ==
    /\ \A i \in DOMAIN calls : StepOf(calls[i]) = i
    /\ \A i \in DOMAIN calls :
         IsTp(calls[i]) => i > 1 /\ IsMarket(calls[i - 1]) /\ Accepted(calls[i - 1])
    /\ pc = "check_balance" => Len(calls) = 0
    /\ pc = "set_margin_type" => Len(calls) = 1
    /\ pc = "set_leverage" => Len(calls) = 2
    /\ pc = "calculate_quantity" => Len(calls) = 3
    /\ pc = "place_market_order" => Len(calls) = 4
    /\ pc = "place_tp_order" => Len(calls) = 5

C4_Witness ==
    /\ pc = "returned"
    /\ Len(calls) = 6
    /\ IsTp(calls[6])
    /\ result = TRUE

C6_AlreadySetIsSuccess ==
    (/\ pc = "returned"
     /\ last.valid
     /\ last.signal = signal_data
     /\ SameAnswers(calls, last.calls))
    => /\ Len(calls) = Len(last.calls)
       /\ \A i \in 1..Min(Len(calls), Len(last.calls)) :
            Request(calls[i]) = Request(last.calls[i])
       /\ result = last.result

C6_Witness ==
    /\ pc = "returned"
    /\ last.valid
    /\ last.signal = signal_data
    /\ SameAnswers(calls, last.calls)
    /\ Len(calls) = 6
    /\ calls[2].resp = ApiError(MarginAlreadySet)
    /\ Len(last.calls) = 6
    /\ last.calls[2].resp = Ok(0)
    /\ result = TRUE

\* C7: when the exchange rejects the leverage change, the invocation ends
\* there as failed: the leverage call is its last call (no exchange info
\* query, no market order, no take-profit order).
C7_LeverageFailureRejects ==
    \A i \in DOMAIN calls :
        (IsLeverage(calls[i]) /\ calls[i].resp.kind = "api_error")
        => /\ i = Len(calls)
           /\ Ended
           /\ result = FALSE
           /\ quantity = NoQuantity

C7_Witness ==
    /\ pc = "returned"
    /\ Len(calls) = 3
    /\ IsLeverage(calls[3])
    /\ calls[3].resp.kind = "api_error"

\* C8: an invocation whose margin is above MAX_MARGIN_LIMIT ends as failed
\* without any exchange call; an invocation whose margin equals
\* MAX_MARGIN_LIMIT goes on to the balance query.
C8_MarginLimitGate ==
    Invoked =>
      /\ signal_data.margin > MAX_MARGIN_LIMIT =>
           calls = <<>> /\ Ended /\ result = FALSE
      /\ signal_data.margin = MAX_MARGIN_LIMIT =>
           pc = "check_balance" \/ Len(calls) >= 1

C8_Witness ==
    /\ pc = "returned"
    /\ signal_data.margin > MAX_MARGIN_LIMIT
    /\ calls = <<>>
    /\ last.valid
    /\ last.signal.margin = MAX_MARGIN_LIMIT
    /\ Len(last.calls) >= 1

\* C9: when the balance query reports less than the margin, or is rejected
\* by the exchange, the invocation ends there as failed, so that the balance
\* query is its only call; when it reports exactly the margin, the
\* invocation goes on to the margin-type request.
C9_BalanceGate ==
    \A i \in DOMAIN calls :
        calls[i].op = "futures_account" =>
          /\ (\/ calls[i].resp.kind = "api_error"
              \/ calls[i].resp.kind = "ok" /\ calls[i].resp.val < signal_data.margin)
             => Len(calls) = 1 /\ Ended /\ result = FALSE
          /\ (calls[i].resp.kind = "ok" /\ calls[i].resp.val = signal_data.margin)
             => IF Len(calls) = 1 THEN pc = "set_margin_type"
                ELSE IsMarginType(calls[2])

C9_Witness ==
    /\ pc = "returned"
    /\ Len(calls) = 1
    /\ calls[1].resp = Ok(signal_data.margin - 1)
    /\ last.valid
    /\ Len(last.calls) >= 2
    /\ last.calls[1].resp = Ok(last.signal.margin)

\* C10: the market entry order is a BUY for LONG and a SELL for SHORT, for
\* the signal's symbol and the sized quantity; the take-profit order is on
\* the opposite side, for the same symbol and quantity as the entry order,
\* with stopPrice equal to the signal's tp.
C10_OrderSides ==
    \A i \in DOMAIN calls :
        /\ IsMarket(calls[i]) =>
             /\ signal_data.signal_type = "LONG" => calls[i].side = "BUY"
             /\ signal_data.signal_type = "SHORT" => calls[i].side = "SELL"
             /\ calls[i].symbol = signal_data.symbol
             /\ calls[i].quantity = quantity
        /\ IsTp(calls[i]) =>
             /\ i > 1
             /\ IsMarket(calls[i - 1])
             /\ {calls[i].side, calls[i - 1].side} = {"BUY", "SELL"}
             /\ calls[i].symbol = calls[i - 1].symbol
             /\ calls[i].quantity = calls[i - 1].quantity
             /\ calls[i].value = signal_data.tp

C10_Witness ==
    /\ pc = "returned"
    /\ Len(calls) = 6
    /\ signal_data.signal_type = "SHORT"
    /\ IsTp(calls[6])
    /\ calls[6].side = "BUY"
    /\ calls[6].quantity.units > 0

\* the exchange answered two invocations identically, step for step
IdenticalAnswers(cs, ds) ==
    \A i \in 1..Min(Len(cs), Len(ds)) : cs[i].resp = ds[i].resp

\* two signals that differ at most in their stop loss
SameButStopLoss(s, t) == [s EXCEPT !.sl = <<>>] = [t EXCEPT !.sl = <<>>]

\* C11: an invocation that has ended returned True exactly when the
\* exchange accepted both its market entry order and its take-profit order.
C11_SuccessIffBothOrders ==
    Ended =>
      (result = TRUE <=>
         /\ \E i \in DOMAIN calls : IsMarket(calls[i]) /\ Accepted(calls[i])
         /\ \E i \in DOMAIN calls : IsTp(calls[i]) /\ Accepted(calls[i]))

C11_Witness ==
    /\ pc = "returned"
    /\ result = TRUE
    /\ held # {}
    /\ \E i \in DOMAIN calls : IsMarket(calls[i]) /\ Accepted(calls[i])
    /\ \E i \in DOMAIN calls : IsTp(calls[i]) /\ Accepted(calls[i])

\* C12: no two calls of one invocation are the same exchange operation
\* (balance, margin type, leverage, exchange info, market order, take-profit
\* order), so at most one market and one take-profit order are submitted;
\* every order is a MARKET or a TAKE_PROFIT_MARKET order, never a stop-loss
\* order, also for a signal that carries a stop loss.
C12_NoRetryNoStopLoss ==
    /\ \A i, j \in DOMAIN calls :
         i # j => StepOf(calls[i]) # StepOf(calls[j])
    /\ \A i \in DOMAIN calls :
         calls[i].op = "futures_create_order" =>
           /\ calls[i].type \in {"MARKET", "TAKE_PROFIT_MARKET"}
           /\ IsTp(calls[i]) => calls[i].value = signal_data.tp
    /\ Cardinality({i \in DOMAIN calls : calls[i].op = "futures_create_order"}) <= 2

C12_Witness ==
    /\ pc = "returned"
    /\ signal_data.sl # <<>>
    /\ Len(calls) = 6
    /\ IsTp(calls[6])
    /\ calls[6].resp.kind = "api_error"

\* number of exchange calls execute_trade can still make from a position
StepsLeft(p) ==
    CASE p = "check_balance" -> 6
      [] p = "set_margin_type" -> 5
      [] p = "set_leverage" -> 4
      [] p = "calculate_quantity" -> 3
      [] p = "place_market_order" -> 2
      [] p = "place_tp_order" -> 1
      [] p = "returned" -> 0
      [] OTHER -> 7

\* the trader is idle, at one of its steps or returned, its outcome is one
\* boolean, and a trader at a step can take that step
DefiniteOutcome ==
    /\ pc \in {"idle", "check_balance", "set_margin_type", "set_leverage",
               "calculate_quantity", "place_market_order", "place_tp_order", "returned"}
    /\ result \in BOOLEAN
    /\ pc \notin {"idle", "returned"} => ENABLED TraderStep

\* every step of a running invocation brings its return closer
Progress ==
    pc \notin {"idle", "returned"} => StepsLeft(pc') < StepsLeft(pc)

\* C13: every invocation of execute_trade terminates with one definitive
\* outcome, whatever the exchange answers or raises: a started invocation
\* is never stuck and never left by an exception, each of its steps can be
\* taken and strictly decreases the number of steps left before the return,
\* and the value returned is one boolean.
C13_Terminates == []DefiniteOutcome /\ [][Progress]_vars

C13_Witness ==
    /\ pc = "returned"
    /\ result = FALSE
    /\ Len(calls) = 4
    /\ calls[4].resp.kind \in {"not_listed", "other_error"}

\* C14: two invocations whose signals differ at most in the stop loss and
\* that get identical answers from the exchange send the same requests with
\* the same arguments in the same order and return the same value.
C14_StopLossIgnored ==
    (/\ pc = "returned"
     /\ last.valid
     /\ SameButStopLoss(signal_data, last.signal)
     /\ IdenticalAnswers(calls, last.calls))
    => /\ Len(calls) = Len(last.calls)
       /\ \A i \in 1..Min(Len(calls), Len(last.calls)) :
            Request(calls[i]) = Request(last.calls[i])
       /\ result = last.result

C14_Witness ==
    /\ pc = "returned"
    /\ last.valid
    /\ SameButStopLoss(signal_data, last.signal)
    /\ signal_data.sl # last.signal.sl
    /\ IdenticalAnswers(calls, last.calls)
    /\ Len(calls) = 6
    /\ Len(last.calls) = 6
    /\ result = TRUE

(* ============================ the parser =============================== *)

(* A message text is described by what each of the seven re.search calls   *)
(* of parse_signal finds in it: nothing (<<>>), or the text of group(1) of *)
(* the first match (<<capture>>).  A capture is a sequence of characters.  *)
(* The text with no match at all stands for every text without labels,     *)
(* the empty text included.                                                *)

Digits == {"0", "1", "2", "3", "4", "5", "6", "7", "8", "9"}

\* what ([\d.]+) captures after Entry:, TP:, SL: and Margin:
DecimalCaptures ==
    { <<"0">>, <<"1", "0", "0">>, <<"2", "0", "0">>, <<"1", "0", "0", ".", "0">>,
      <<"1", ".", "2", ".", "3">>, <<".">> }

\* what (\d+) captures in front of the x of Leverage:
LeverageCaptures ==
    { <<"0">>, <<"1">>, <<"1", "0">>, <<"1", "2", "5">>, <<"1", "2", "6">> }

\* what ([A-Z]+) captures under re.IGNORECASE after the marker
LongCaptures ==
    { <<"B", "T", "C", "U", "S", "D", "T">>, <<"b", "t", "c", "u", "s", "d", "t">> }
ShortCaptures == { <<"E", "T", "H", "U", "S", "D", "T">> }

Optional(S) == {<<>>} \cup {<<c>> : c \in S}

Messages ==
    [long : Optional(LongCaptures), short : Optional(ShortCaptures),
     entry : Optional(DecimalCaptures), tp : Optional(DecimalCaptures),
     sl : Optional(DecimalCaptures), leverage : Optional(LeverageCaptures),
     margin : Optional(DecimalCaptures)]

\* a match object (truthy) or None
Matched(m) == m # <<>>
Group(m) == m[1]

DigitValue(c) ==
    CASE c = "0" -> 0 [] c = "1" -> 1 [] c = "2" -> 2 [] c = "3" -> 3 [] c = "4" -> 4
      [] c = "5" -> 5 [] c = "6" -> 6 [] c = "7" -> 7 [] c = "8" -> 8 [] c = "9" -> 9

\* value of a sequence of decimal digits; the empty sequence counts 0
RECURSIVE DecimalValue(_)
DecimalValue(t) ==
    IF t = <<>> THEN 0
    ELSE 10 * DecimalValue(SubSeq(t, 1, Len(t) - 1)) + DigitValue(t[Len(t)])

\* int(capture): the capture of (\d+) is always a valid integer literal
int(t) == DecimalValue(t)

\* float(capture) raises ValueError unless the capture of ([\d.]+) has at
\* least one digit and at most one dot
FloatRaises(t) ==
    \/ Cardinality({i \in DOMAIN t : t[i] = "."}) > 1
    \/ \A i \in DOMAIN t : t[i] \notin Digits

\* float(capture) in units of 10^-FracDigits (digits beyond are dropped)
float(t) ==
    LET dots == {i \in DOMAIN t : t[i] = "."}
        d == IF dots = {} THEN Len(t) + 1 ELSE CHOOSE i \in dots : TRUE
        whole == SubSeq(t, 1, d - 1)
        frac == SubSeq(t, d + 1, Len(t))
        kept == [i \in 1..FracDigits |-> IF i <= Len(frac) THEN frac[i] ELSE "0"]
    IN  DecimalValue(whole) * Pow10(FracDigits) + DecimalValue(kept)

\* variant: only AttributeError is caught
Caught_attribute_only(exc) == exc = "AttributeError"

\* parse_signal, 'except (ValueError, AttributeError)'
Caught(exc) == exc \in {"ValueError", "AttributeError"}

\* variant: a text without marker is taken as a LONG signal for a default symbol
detect_signal_type_default(m) ==
    IF Matched(m.long) THEN [signal_type |-> "LONG", symbol |-> Group(m.long)]
    ELSE IF Matched(m.short) THEN [signal_type |-> "SHORT", symbol |-> Group(m.short)]
    ELSE [signal_type |-> "LONG", symbol |-> <<"B", "T", "C", "U", "S", "D", "T">>]

\* parse_signal, "Detect signal type": LONG wins over SHORT, symbol is
\* group(1) as written in the text
detect_signal_type(m) ==
    IF Matched(m.long) THEN [signal_type |-> "LONG", symbol |-> Group(m.long)]
    ELSE IF Matched(m.short) THEN [signal_type |-> "SHORT", symbol |-> Group(m.short)]
    ELSE [signal_type |-> "None", symbol |-> <<>>]

\* parse_signal, "Validate required fields": all([entry, tp, leverage, margin])
required_fields(m) ==
    /\ Matched(m.entry)
    /\ Matched(m.tp)
    /\ Matched(m.leverage)
    /\ Matched(m.margin)

\* variant: the stop loss is converted without the 'if sl_match' guard
sl_raises_unguarded(m) ==
    IF Matched(m.sl) THEN FloatRaises(Group(m.sl)) ELSE TRUE

\* 'float(sl_match.group(1)) if sl_match else None' raises
sl_raises(m) ==
    IF Matched(m.sl) THEN FloatRaises(Group(m.sl)) ELSE FALSE

\* building the signal_data dict raises (ValueError of a float(); an absent
\* stop loss is guarded)
conversion_raises(m) ==
    \/ FloatRaises(Group(m.entry))
    \/ FloatRaises(Group(m.tp))
    \/ sl_raises(m)
    \/ FloatRaises(Group(m.margin))

\* the signal_data dict of parse_signal
signal_dict(det, m) ==
    [signal_type |-> det.signal_type,
     symbol      |-> det.symbol,
     entry       |-> float(Group(m.entry)),
     tp          |-> float(Group(m.tp)),
     sl          |-> IF Matched(m.sl) THEN <<float(Group(m.sl))>> ELSE <<>>,
     leverage    |-> int(Group(m.leverage)),
     margin      |-> float(Group(m.margin))]

ParseResult(value, why, signal) == [value |-> value, why |-> why, signal |-> signal]

\* SignalParser.parse_signal: value is "None", "dict" (the signal) or
\* "raise" (an exception leaves parse_signal); why names the return taken
parse_signal(m) ==
    LET det == detect_signal_type(m)
    IN  IF det.signal_type = "None" THEN ParseResult("None", "not_a_signal", NoSignal)
        ELSE IF ~required_fields(m) THEN ParseResult("None", "incomplete", NoSignal)
        ELSE IF conversion_raises(m)
             THEN IF Caught("ValueError")
                  THEN ParseResult("None", "malformed", NoSignal)
                  ELSE ParseResult("raise", "ValueError", NoSignal)
        ELSE IF validate_signal(signal_dict(det, m))
             THEN ParseResult("dict", "accepted", signal_dict(det, m))
        ELSE ParseResult("None", "invalid", NoSignal)

\* parser.parse_signal(text) is called on the message
ParseSignal ==
    /\ parsed.status = "none"
    /\ LET res == parse_signal(message)
       IN  parsed' = [status |-> "done", value |-> res.value, why |-> res.why,
                      signal |-> res.signal, again |-> "none"]
    /\ UNCHANGED <<pc, signal_data, quantity, result, calls, positions, held, last,
                   message, sizing, tasks, running>>

\* parser.parse_signal(text) is called a second time on the same message
ParseSignalAgain ==
    /\ parsed.status = "done"
    /\ parsed.again = "none"
    /\ parsed' = [parsed EXCEPT !.again = parse_signal(message).value]
    /\ UNCHANGED <<pc, signal_data, quantity, result, calls, positions, held, last,
                   message, sizing, tasks, running>>

ParseInit ==
    /\ TraderInit
    /\ message \in Messages
    /\ parsed = NotParsed
    /\ sizing = NoSizing
    /\ NoHandler

ParseNext ==
    \/ ParseSignal
    \/ ParseSignalAgain

\* parse_signal applied to every message
ParseSpec == ParseInit /\ [][ParseNext]_vars

(* ----------------------- vocabulary of texts ---------------------------- *)

HasMarker(m) == Matched(m.long) \/ Matched(m.short)

\* direction the text announces (the LONG marker is looked for first)
DirectionOf(m) == IF Matched(m.long) THEN "LONG" ELSE "SHORT"

\* Entry, TP, Leverage and Margin are all found in the text
FieldsPresent(m) ==
    Matched(m.entry) /\ Matched(m.tp) /\ Matched(m.leverage) /\ Matched(m.margin)

\* a found capture that is a number
Numeric(f) == Matched(f) /\ ~FloatRaises(Group(f))

\* a found capture that is not a number
Malformed(f) == Matched(f) /\ FloatRaises(Group(f))

\* the text is a complete signal with numeric positive prices and margin,
\* a take profit on the right side of the entry and no malformed stop loss:
\* everything but the leverage is in order
ValidButLeverage(m) ==
    /\ HasMarker(m)
    /\ Numeric(m.entry) /\ Numeric(m.tp) /\ Numeric(m.margin)
    /\ Matched(m.leverage)
    /\ ~Malformed(m.sl)
    /\ float(Group(m.entry)) > 0
    /\ float(Group(m.margin)) > 0
    /\ IF DirectionOf(m) = "LONG"
       THEN float(Group(m.tp)) > float(Group(m.entry))
       ELSE float(Group(m.tp)) < float(Group(m.entry)) /\ float(Group(m.tp)) > 0

WithoutSl(m) == [m EXCEPT !.sl = <<>>]

Parsed == parsed.status = "done"

(* --------------------------- parser claims ----------------------------- *)

\* C15: a text with a marker and all of Entry, TP, Leverage, Margin is
\* rejected when it is LONG with takeProfit <= entry and when it is SHORT
\* with takeProfit >= entry; an accepted LONG signal has tp > entry and an
\* accepted SHORT signal has tp < entry.
C15_TpDirection ==
    Parsed =>
      /\ (/\ HasMarker(message) /\ FieldsPresent(message)
          /\ Numeric(message.entry) /\ Numeric(message.tp))
         => /\ (/\ DirectionOf(message) = "LONG"
                /\ float(Group(message.tp)) <= float(Group(message.entry)))
               => parsed.value = "None"
            /\ (/\ DirectionOf(message) = "SHORT"
                /\ float(Group(message.tp)) >= float(Group(message.entry)))
               => parsed.value = "None"
      /\ parsed.value = "dict" =>
            /\ parsed.signal.signal_type = "LONG" => parsed.signal.tp > parsed.signal.entry
            /\ parsed.signal.signal_type = "SHORT" => parsed.signal.tp < parsed.signal.entry

\* a LONG text, in order but for a take profit written 100.0 for entry 100
C15_Witness ==
    /\ Parsed
    /\ Matched(message.long)
    /\ message.entry = << <<"1", "0", "0">> >>
    /\ message.tp = << <<"1", "0", "0", ".", "0">> >>
    /\ message.leverage = << <<"1", "0">> >>
    /\ Numeric(message.margin) /\ float(Group(message.margin)) > 0
    /\ ~Malformed(message.sl)
    /\ parsed.value = "None"
    /\ parsed.why = "invalid"

\* C16: a text in order but for its leverage is rejected when the leverage
\* is 0 or above 125 and accepted when it is 1 or 125; every accepted signal
\* has 1 <= leverage <= 125, entry > 0, tp > 0 and margin > 0.
C16_LeverageRange ==
    Parsed =>
      /\ ValidButLeverage(message) =>
           /\ (int(Group(message.leverage)) = 0 \/ int(Group(message.leverage)) > 125)
              => parsed.value = "None"
           /\ int(Group(message.leverage)) \in {1, 125} => parsed.value = "dict"
      /\ parsed.value = "dict" =>
           /\ parsed.signal.leverage >= 1
           /\ parsed.signal.leverage <= 125
           /\ parsed.signal.entry > 0
           /\ parsed.signal.tp > 0
           /\ parsed.signal.margin > 0

C16_Witness ==
    /\ Parsed
    /\ ValidButLeverage(message)
    /\ int(Group(message.leverage)) = 0
    /\ parsed.value = "None"
    /\ parsed.why = "invalid"

\* C17: a text with neither the LONG nor the SHORT marker gives None by the
\* not-a-signal return, whatever labelled fields it has, and gives the same
\* when parsed again.
C17_NoMarkerNotASignal ==
    (Parsed /\ ~HasMarker(message)) =>
      /\ parsed.value = "None"
      /\ parsed.why = "not_a_signal"
      /\ parsed.again \in {"none", parsed.value}

C17_Witness ==
    /\ Parsed
    /\ ~HasMarker(message)
    /\ FieldsPresent(message)
    /\ Numeric(message.entry) /\ Numeric(message.tp) /\ Numeric(message.margin)
    /\ float(Group(message.tp)) > float(Group(message.entry))
    /\ float(Group(message.entry)) > 0
    /\ float(Group(message.margin)) > 0
    /\ int(Group(message.leverage)) = 10
    /\ parsed.again = "None"

\* C18 (as stated): a text with a marker is rejected when one of Entry, TP,
\* Leverage, Margin is absent; an accepted signal has all its fields from
\* the text; whether the SL field is present or not never changes whether
\* the text is accepted.
C18_SlNeverMatters ==
    Parsed =>
      /\ (HasMarker(message) /\ ~FieldsPresent(message)) => parsed.value = "None"
      /\ parsed.value = "dict" => FieldsPresent(message)
      /\ (parsed.value = "dict") <=> (parse_signal(WithoutSl(message)).value = "dict")

\* C18 (amended): as stated, except that only an SL field whose captured
\* text is a valid number leaves the acceptance unchanged; an SL field
\* whose captured text is not a valid number makes the text rejected.
C18_RequiredFields ==
    Parsed =>
      /\ (HasMarker(message) /\ ~FieldsPresent(message)) => parsed.value = "None"
      /\ parsed.value = "dict" =>
           /\ FieldsPresent(message)
           /\ parsed.signal = signal_dict(detect_signal_type(message), message)
      /\ Numeric(message.sl) =>
           ((parsed.value = "dict") <=> (parse_signal(WithoutSl(message)).value = "dict"))
      /\ Malformed(message.sl) => parsed.value = "None"

C18_Witness ==
    /\ Parsed
    /\ Numeric(message.sl)
    /\ parsed.value = "dict"
    /\ parsed.signal.sl # <<>>
    /\ parse_signal(WithoutSl(message)).value = "dict"

\* C19: when the captured text of Entry, TP, SL or Margin is not a valid
\* number, parse_signal returns None (by its malformed return when the text
\* is otherwise complete) and no exception leaves it.
C19_MalformedRejected ==
    Parsed =>
      /\ parsed.value # "raise"
      /\ (\/ Malformed(message.entry) \/ Malformed(message.tp)
          \/ Malformed(message.sl) \/ Malformed(message.margin))
         => /\ parsed.value = "None"
            /\ (HasMarker(message) /\ FieldsPresent(message)) => parsed.why = "malformed"

C19_Witness ==
    /\ Parsed
    /\ HasMarker(message)
    /\ FieldsPresent(message)
    /\ message.entry = << <<"1", ".", "2", ".", "3">> >>
    /\ Numeric(message.tp) /\ Numeric(message.margin)
    /\ parsed.value = "None"
    /\ parsed.why = "malformed"

(* ============================= the sizer =============================== *)

\* arguments calculate_quantity is applied to
SizeMargins == {1, 50, MAX_MARGIN_LIMIT}
SizeLeverages == {1, 10, 125}
SizeEntries == {3, 7, 16, 600, 60000}

SizeInputs ==
    [margin : SizeMargins, leverage : SizeLeverages, entry_price : SizeEntries,
     quantity_precision : Precisions, done : {FALSE}, quantity : {NoQuantity}]

\* calculate_quantity(symbol, margin, leverage, entry_price) returns, for a
\* symbol whose LOT_SIZE step gives quantity_precision
Size ==
    /\ ~sizing.done
    /\ sizing' = [sizing EXCEPT
                    !.done = TRUE,
                    !.quantity = calculate_quantity(sizing.margin, sizing.leverage,
                                                    sizing.entry_price,
                                                    sizing.quantity_precision)]
    /\ UNCHANGED <<pc, signal_data, quantity, result, calls, positions, held, last,
                   message, parsed, tasks, running>>

SizeInit ==
    /\ TraderInit
    /\ message = NoMessage
    /\ parsed = NotParsed
    /\ sizing \in SizeInputs
    /\ NoHandler

SizeNext == Size

\* calculate_quantity applied to every argument
SizeSpec == SizeInit /\ [][SizeNext]_vars

\* C20 (as stated): the quantity returned by calculate_quantity is
\* margin * leverage / entry_price rounded down to p fractional digits: it
\* is a multiple of 10^-p and quantity * entry_price does not exceed
\* margin * leverage.
C20_RoundedDown ==
    sizing.done =>
      /\ sizing.quantity.prec = sizing.quantity_precision
      /\ sizing.quantity.units * sizing.entry_price
           <= sizing.margin * sizing.leverage * Pow10(sizing.quantity_precision)

----------------------------------------------------------------------------
\* Missing step-size metadata

\* futures_exchange_info answered without step-size metadata for the symbol:
\* the symbol is not listed, or it is listed without a LOT_SIZE filter
NoStepSize(c) ==
    /\ c.op = "futures_exchange_info"
    /\ c.resp.kind \in {"not_listed", "no_lot_size"}

\* C21 (as stated): when the exchange has no step-size metadata for the
\* symbol (unknown symbol, or known symbol without lot-size entry), the
\* exchange-info call is the last call of the execution and execute_trade
\* has ended with False: no order is placed.
C21_NoStepSizeAborts ==
    \A i \in DOMAIN calls :
        NoStepSize(calls[i]) =>
            /\ i = Len(calls)
            /\ pc \in {"returned", "idle"}
            /\ result = FALSE

----------------------------------------------------------------------------
\* The symbol of an accepted signal

UpperLetters ==
    {"A", "B", "C", "D", "E", "F", "G", "H", "I", "J", "K", "L", "M",
     "N", "O", "P", "Q", "R", "S", "T", "U", "V", "W", "X", "Y", "Z"}

\* C24 (as stated): every signal accepted by parse_signal has a symbol made
\* only of uppercase letters, also when marker and symbol are written in
\* lower case and matched under re.IGNORECASE.
C24_SymbolUppercase ==
    (Parsed /\ parsed.value = "dict") =>
        /\ parsed.signal.symbol # <<>>
        /\ \A i \in DOMAIN parsed.signal.symbol : parsed.signal.symbol[i] \in UpperLetters

----------------------------------------------------------------------------
\* TradingBot.handle_message

\* config.TELEGRAM_CHAT_ID and the ids of the chats updates come from, as
\* str(update.effective_chat.id) writes them
TELEGRAM_CHAT_ID == "-1001"
ChatIds == {TELEGRAM_CHAT_ID, "-1002"}

\* the member of the update that is set: run_polling asks for all update
\* types, update.message and update.channel_post are None for an edit
UpdateKinds == {"message", "channel_post", "edited_message"}

\* 'LONG SIGNAL - BTCUSDT', 'Entry: 100', 'TP: 200', 'Leverage: 10x', 'Margin: $100'
LongText ==
    [long |-> << <<"B", "T", "C", "U", "S", "D", "T">> >>, short |-> <<>>,
     entry |-> << <<"1", "0", "0">> >>, tp |-> << <<"2", "0", "0">> >>, sl |-> <<>>,
     leverage |-> << <<"1", "0">> >>, margin |-> << <<"1", "0", "0">> >>]

\* 'SHORT SIGNAL - ETHUSDT', 'Entry: 200', 'TP: 100', 'Leverage: 1x', 'Margin: $100'
ShortText ==
    [long |-> <<>>, short |-> << <<"E", "T", "H", "U", "S", "D", "T">> >>,
     entry |-> << <<"2", "0", "0">> >>, tp |-> << <<"1", "0", "0">> >>, sl |-> <<>>,
     leverage |-> << <<"1">> >>, margin |-> << <<"1", "0", "0">> >>]

\* a text without marker
ChatterText ==
    [long |-> <<>>, short |-> <<>>, entry |-> <<>>, tp |-> <<>>, sl |-> <<>>,
     leverage |-> <<>>, margin |-> <<>>]

\* LongText with 'Entry: 1.2.3'
BadText == [LongText EXCEPT !.entry = << <<"1", ".", "2", ".", "3">> >>]

BotTexts == {LongText, ShortText, ChatterText, BadText}

\* the updates the application hands to handle_message; text is message.text
\* (absent for a photo, a sticker, ...)
Updates == [chat_id : ChatIds, kind : UpdateKinds, text : Optional(BotTexts)]

\* the updates in order of arrival
Handlers == 1..MaxUpdates

\* variant: updates of every chat are processed
from_configured_chat_any(u) == TRUE

\* 'if str(update.effective_chat.id) != config.TELEGRAM_CHAT_ID: return'
from_configured_chat(u) == u.chat_id = TELEGRAM_CHAT_ID

\* 'message = update.message or update.channel_post' and
\* 'if not message or not message.text: return'
has_text(u) ==
    /\ u.kind \in {"message", "channel_post"}
    /\ Matched(u.text)

\* an amount of the signal dict in the unit the trader's amounts are kept in
\* (the texts of BotTexts carry whole amounts)
Whole(x) == x \div Pow10(FracDigits)

\* the dict of parse_signal as execute_trade reads it
TraderSignal(sig) ==
    [sig EXCEPT !.entry = Whole(sig.entry), !.tp = Whole(sig.tp),
                !.margin = Whole(sig.margin),
                !.sl = IF sig.sl = <<>> THEN <<>> ELSE <<Whole(sig.sl[1])>>]

\* handler i is over but for an awaited reply; n exchange calls were made
Handled(i, status, n) == [tasks EXCEPT ![i].status = status, ![i].calls = n]

\* handle_message is entered for the next update and runs up to its return
\* or into execute_trade
HandleMessage(i) ==
    /\ running = 0
    /\ tasks[i].status = "pending"
    /\ \A j \in Handlers : j < i => tasks[j].status # "pending"
    /\ LET u == tasks[i].update
       IN  IF ~from_configured_chat(u) \/ ~has_text(u)
           THEN /\ tasks' = Handled(i, "done", 0)
                /\ message' = NoMessage
                /\ parsed' = NotParsed
                /\ calls' = <<>>
                /\ UNCHANGED <<pc, signal_data, quantity, result, positions, held, last,
                               running>>
           ELSE LET res == parse_signal(Group(u.text))
                IN  /\ message' = Group(u.text)
                    /\ parsed' = [status |-> "done", value |-> res.value, why |-> res.why,
                                  signal |-> res.signal, again |-> "none"]
                    /\ IF res.value = "dict"
                       THEN /\ execute_trade(TraderSignal(res.signal))
                            /\ tasks' = [tasks EXCEPT ![i].status = "handling"]
                            /\ running' = i
                       ELSE /\ tasks' = Handled(i, "done", 0)
                            /\ calls' = <<>>
                            /\ UNCHANGED <<pc, signal_data, quantity, result, positions,
                                           held, last, running>>
    /\ UNCHANGED sizing

\* execute_trade has returned to handle_message: the result is logged and,
\* for a successful trade on a group message, the reply is awaited
FinishHandling ==
    /\ running # 0
    /\ pc = "returned"
    /\ pc' = "idle"
    /\ tasks' = Handled(running,
                        IF result /\ tasks[running].update.kind = "message"
                        THEN "replying" ELSE "done",
                        Len(calls))
    /\ running' = 0
    /\ UNCHANGED <<signal_data, quantity, result, calls, positions, held, last,
                   message, parsed, sizing>>

\* 'await message.reply_text(...)' completes or raises, handle_message returns
ReplySent(i) ==
    /\ running = 0
    /\ tasks[i].status = "replying"
    /\ tasks' = [tasks EXCEPT ![i].status = "done"]
    /\ UNCHANGED <<pc, signal_data, quantity, result, calls, positions, held, last,
                   message, parsed, sizing, running>>

BotInit ==
    /\ TraderInit
    /\ message = NoMessage
    /\ parsed = NotParsed
    /\ sizing = NoSizing
    /\ tasks \in [Handlers -> [update : Updates, status : {"pending"}, calls : {0}]]
    /\ running = 0

BotNext ==
    \/ \E i \in Handlers : HandleMessage(i)
    \/ CheckBalance
    \/ SetMarginType
    \/ SetLeverage
    \/ CalculateQuantity
    \/ PlaceMarketOrder
    \/ PlaceTpOrder
    \/ FinishHandling
    \/ \E i \in Handlers : ReplySent(i)

\* the bot handling two updates that arrive back-to-back
BotSpec == BotInit /\ [][BotNext]_vars

----------------------------------------------------------------------------
\* Claims about handle_message

\* the exchange calls made while update i was handled
CallsFor(i) == IF tasks[i].status = "handling" THEN Len(calls) ELSE tasks[i].calls

\* the update comes from the configured chat and parse_signal accepts its text
Eligible(u) ==
    /\ u.chat_id = TELEGRAM_CHAT_ID
    /\ Matched(u.text)
    /\ parse_signal(Group(u.text)).value = "dict"

\* C22: the exchange is called for an update only if the update comes from
\* the configured chat and parse_signal accepted its text; an update of
\* another chat, an update without text, a text that is not a signal and a
\* text the parser rejects cause no exchange call.
C22_CallsOnlyForAcceptedSignals ==
    \A i \in DOMAIN tasks : CallsFor(i) > 0 => Eligible(tasks[i].update)

\* an accepted text sent to another chat was dropped without a call, and
\* the other update was a signal that reached the exchange
C22_Witness ==
    \E i, j \in DOMAIN tasks :
        /\ i # j
        /\ tasks[i].status = "done"
        /\ tasks[i].calls = 0
        /\ tasks[i].update.chat_id # TELEGRAM_CHAT_ID
        /\ tasks[i].update.text = <<LongText>>
        /\ tasks[i].update.kind = "message"
        /\ tasks[j].status = "done"
        /\ tasks[j].calls > 0

\* the executions of execute_trade that have begun and not yet returned to
\* handle_message
InFlight == {i \in DOMAIN tasks : tasks[i].status = "handling"}

\* execute_trade is over for update i (or was never called for it)
Terminal(i) == tasks[i].status \in {"replying", "done"}

\* C23: at most one execution of execute_trade is in flight; when the
\* handling of a later update has begun, the execution for every earlier
\* update has reached its outcome, so the exchange calls of two executions
\* never interleave.
C23_OneExecutionInFlight ==
    /\ Cardinality(InFlight) <= 1
    /\ pc # "idle" => Cardinality(InFlight) = 1
    /\ \A i, j \in DOMAIN tasks :
         (i < j /\ tasks[j].status # "pending") => Terminal(i)

\* two signals back-to-back: the first execution made its calls and is
\* over, the second is making its calls
C23_Witness ==
    \E i, j \in DOMAIN tasks :
        /\ i < j
        /\ Terminal(i)
        /\ tasks[i].calls > 0
        /\ tasks[j].status = "handling"
        /\ Len(calls) > 1

\* C25 (as stated): execute_trade never submits a market entry order whose
\* quantity is zero.
C25_NoZeroQuantityOrder ==
    \A i \in DOMAIN calls : IsMarket(calls[i]) => calls[i].quantity.units > 0

====
